---------------------------- MODULE Spec2Model ----------------------------
(***************************************************************************)
(* One rendering pass of portfolio-dashboard-v11.py: the five inputs are   *)
(* checked, the reference files are parsed, the holdings are joined with   *)
(* beta, issuer names and member names, filtered by display name,          *)
(* summarised, and rendered as cards, chart, table and download.           *)
(*                                                                         *)
(* Numbers.  The columns are pandas float columns, so a division by zero   *)
(* does not raise: it yields inf, -inf or NaN.  A value is a record        *)
(* [n, d]: the fraction n/d in lowest terms when d > 0, and with d = 0     *)
(* the values +inf (n = 1), -inf (n = -1) and NaN (n = 0).  A missing      *)
(* (None) entry of a float column is NaN, as in pandas.                    *)
(*                                                                         *)
(* Texts.  A label or a name is a record [lang, key]: the language the     *)
(* text is written in and what it names; the empty string is EmptyText.    *)
(* Formatted amounts are sequences of one-character strings.               *)
(***************************************************************************)
EXTENDS Integers, Sequences, FiniteSets, TLC

VARIABLES
    pc,              \* position of the pass in the script
    error,           \* "" or the exception that ended the pass
    language,        \* st.sidebar.radio, line 26
    files,           \* the inputs that are present (default file or upload)
    locale_ok,       \* whether the runtime has the en_IN.UTF-8 locale
    label_data,      \* labels.json
    bank_data,       \* bank_master.json, "banks_data" keyed by isin
    beta_data,       \* bank_financial_metrics.json, "financial_metrics" by isin
    portfolio_meta,  \* portfolio_master.json, "portfolio_data" by member_code
    csv,             \* portfolio_data.csv, a sequence of rows
    labels,          \* label_data[language]
    header_labels,   \* labels["table_headers"]
    beta_map,        \* isin -> beta_1yr or None
    df,              \* the joined holdings
    selected_stocks, \* the multiselect's value
    filtered_df,     \* the retained holdings
    summary,         \* total_cost, total_market, profit_pct, portfolio_beta
    shown,           \* the labelled widgets emitted so far: [slot, text]
    cards,           \* the values of the four st.metric cards
    chart_df,        \* the rows handed to px.bar
    styled_df,       \* the table handed to st.dataframe
    download         \* the arguments of st.download_button

vars == <<pc, error, language, files, locale_ok, label_data, bank_data, beta_data,
          portfolio_meta, csv, labels, header_labels, beta_map, df, selected_stocks,
          filtered_df, summary, shown, cards, chart_df, styled_df, download>>

inputs == <<files, locale_ok, label_data, bank_data, beta_data, portfolio_meta, csv>>

-----------------------------------------------------------------------------
(* Bounds and input domains *)

MaxHoldings == 2

Isin(i) == <<"I1", "I2", "I3", "I4">>[i]
Isins == {Isin(i) : i \in 1..(MaxHoldings + 1)}

CostValues == {0, 3}
MarketValues == {-1, 0, 1, 2}
FormatValues == {999, 1000, 1234567}

Languages == {"English", "Tamil"}

-----------------------------------------------------------------------------
(* Float arithmetic of the pandas columns *)

Abs(x) == IF x < 0 THEN -x ELSE x
Sign(x) == IF x > 0 THEN 1 ELSE IF x < 0 THEN -1 ELSE 0

RECURSIVE Gcd(_, _)
Gcd(a, b) == IF b = 0 THEN a ELSE Gcd(b, a % b)

NaN == [n |-> 0, d |-> 0]
Inf == [n |-> 1, d |-> 0]
NegInf == [n |-> -1, d |-> 0]
IsNaN(x) == x.d = 0 /\ x.n = 0
IsFinite(x) == x.d > 0

\* the float n / d of two integers: lowest terms, or inf / -inf / NaN when d = 0
Quot(n, d) ==
    IF d = 0 THEN [n |-> Sign(n), d |-> 0]
    ELSE LET g == Gcd(Abs(n), Abs(d))
         IN  [n |-> (Sign(d) * n) \div g, d |-> Abs(d) \div g]

Num(i) == [n |-> i, d |-> 1]
Zero == Num(0)
One == Num(1)

Mul(x, y) ==
    IF IsNaN(x) \/ IsNaN(y) THEN NaN
    ELSE IF IsFinite(x) /\ IsFinite(y) THEN Quot(x.n * y.n, x.d * y.d)
    ELSE [n |-> Sign(x.n) * Sign(y.n), d |-> 0]

Add(x, y) ==
    IF IsNaN(x) \/ IsNaN(y) THEN NaN
    ELSE IF IsFinite(x) /\ IsFinite(y) THEN Quot(x.n * y.d + y.n * x.d, x.d * y.d)
    ELSE IF IsFinite(x) THEN y
    ELSE IF IsFinite(y) THEN x
    ELSE IF x.n = y.n THEN x ELSE NaN

\* Series / Series and Series / scalar
Div(x, y) ==
    IF IsNaN(x) \/ IsNaN(y) THEN NaN
    ELSE IF IsFinite(x) /\ IsFinite(y) THEN Quot(x.n * y.d, x.d * y.n)
    ELSE IF IsFinite(y) THEN [n |-> x.n * (IF y.n < 0 THEN -1 ELSE 1), d |-> 0]
    ELSE IF IsFinite(x) THEN Zero
    ELSE NaN

\* Series.round(2): to the nearest hundredth, ties to even; inf and NaN stay
Round2(x) ==
    IF ~IsFinite(x) THEN x
    ELSE LET a == x.n \div x.d
             s == (x.n - a * x.d) * 100
             q == s \div x.d
             r == s - q * x.d
             f == IF 2 * r < x.d THEN q
                  ELSE IF 2 * r > x.d THEN q + 1
                  ELSE IF q % 2 = 0 THEN q ELSE q + 1
             h == 100 * a + f
         IN  Quot(h, 100)

\* Series.sum() with skipna=True: NaN entries are left out, the empty sum is 0
RECURSIVE SkipNaSumFrom(_, _)
SkipNaSumFrom(s, i) ==
    IF i > Len(s) THEN Zero
    ELSE IF IsNaN(s[i]) THEN SkipNaSumFrom(s, i + 1)
    ELSE Add(s[i], SkipNaSumFrom(s, i + 1))

\* the plain float sum, in which a NaN entry makes the result NaN (used by the
\* properties to state an expected sum)
RECURSIVE PropagatingSumFrom(_, _)
PropagatingSumFrom(s, i) ==
    IF i > Len(s) THEN Zero ELSE Add(s[i], PropagatingSumFrom(s, i + 1))

PropagatingSum(s) == PropagatingSumFrom(s, 1)

SkipNaSum(s) == SkipNaSumFrom(s, 1)

\* Series.sum() of an integer column
RECURSIVE IntSumFrom(_, _)
IntSumFrom(s, i) == IF i > Len(s) THEN 0 ELSE s[i] + IntSumFrom(s, i + 1)

IntSum(s) == IntSumFrom(s, 1)

Column(rows, f) == [i \in 1..Len(rows) |-> rows[i][f]]

-----------------------------------------------------------------------------
(* Texts *)

T(lang, key) == [lang |-> lang, key |-> key]
EmptyText == T("", "")

\* dict.get(key, default) on a JSON object
Get(obj, key, default) == IF key \in DOMAIN obj THEN obj[key] ELSE default

-----------------------------------------------------------------------------
(* format_inr, lines 10-15 *)

Glyph == "₹"

DigitChar(k) == <<"0", "1", "2", "3", "4", "5", "6", "7", "8", "9">>[k + 1]

\* the decimal digits of a natural number
RECURSIVE Digits(_)
Digits(v) == IF v < 10 THEN <<DigitChar(v)>> ELSE Digits(v \div 10) \o <<DigitChar(v % 10)>>

Front(s, k) == SubSeq(s, 1, Len(s) - k)
Last(s, k) == SubSeq(s, Len(s) - k + 1, Len(s))

\* groups of three digits from the right: the "," of the format mini-language
RECURSIVE GroupThrees(_)
GroupThrees(s) ==
    IF Len(s) <= 3 THEN s ELSE GroupThrees(Front(s, 3)) \o <<",">> \o Last(s, 3)

RECURSIVE GroupTwos(_)
GroupTwos(s) ==
    IF Len(s) <= 2 THEN s ELSE GroupTwos(Front(s, 2)) \o <<",">> \o Last(s, 2)

\* mon_grouping 3;2 of en_IN: a last group of three, then groups of two
GroupIndian(s) ==
    IF Len(s) <= 3 THEN s ELSE GroupTwos(Front(s, 3)) \o <<",">> \o Last(s, 3)

\* locale.currency(value, grouping=True) under en_IN.UTF-8: frac_digits 2, the
\* symbol before the amount without a space, the sign before the symbol
LocaleCurrency(value) ==
    (IF value < 0 THEN <<"-">> ELSE <<>>)
        \o <<Glyph>> \o GroupIndian(Digits(Abs(value))) \o <<".", "0", "0">>

\* f"₹{value:,.0f}"
FallbackCurrency(value) ==
    <<Glyph>> \o (IF value < 0 THEN <<"-">> ELSE <<>>) \o GroupThrees(Digits(Abs(value)))

format_inr(value) ==
    IF locale_ok THEN LocaleCurrency(value) ELSE FallbackCurrency(value)

-----------------------------------------------------------------------------
(* The input files *)

FileNames == {"csv_file", "beta_json_file", "bank_master_file", "labels_file",
              "portfolio_master_file"}

LabelKeys == {"title", "table_title", "marketcap_label", "beta_label", "graph_title",
              "filter_by_sector", "export_excel", "table_headers"}

HeaderFields == {"member_code", "portfolio_name", "stock_name", "isin", "qty",
                 "value_cost", "value_market", "profit_pct", "beta"}

\* the label bundle of one language: the top-level keys it has and the keys of
\* its "table_headers" object; the text under a key is in that language
LabelBundle(lang, keys, fields) ==
    [k \in keys |->
        IF k = "table_headers" THEN [f \in fields |-> T(lang, f)] ELSE T(lang, k)]

FullLabels == [l \in Languages |-> LabelBundle(l, LabelKeys, HeaderFields)]

LabelInputs ==
    {FullLabels}
    \cup {[l \in Languages \ {m} |-> FullLabels[l]] : m \in Languages}
    \cup {[l \in Languages |-> LabelBundle(l, LabelKeys \ {k}, HeaderFields)] :
            k \in LabelKeys}
    \cup {[l \in Languages |-> LabelBundle(l, LabelKeys, HeaderFields \ {f})] :
            f \in HeaderFields}

\* an entry of "banks_data": full_name_en and full_name_ta are optional, and a
\* present full_name_ta may be the empty string
BankEntries(i) ==
    {[isin |-> i, full_name_en |-> T("English", i), full_name_ta |-> T("Tamil", i)],
     [isin |-> i, full_name_en |-> T("English", i), full_name_ta |-> EmptyText],
     [isin |-> i, full_name_en |-> T("English", i)],
     [isin |-> i, full_name_ta |-> T("Tamil", i)],
     [isin |-> i]}

NamedIsins == {Isin(1), Isin(2)}

BankInputs ==
    UNION {[S -> UNION {BankEntries(i) : i \in S}] : S \in SUBSET NamedIsins}

WellFormedBank(b) == \A i \in DOMAIN b : b[i].isin = i

DefaultBank ==
    (Isin(1) :> [isin |-> Isin(1), full_name_en |-> T("English", Isin(1)),
                 full_name_ta |-> T("Tamil", Isin(1))])
    @@ (Isin(3) :> [isin |-> Isin(3), full_name_en |-> T("English", Isin(3))])

\* an entry of "financial_metrics": beta_1yr is optional
BetaEntry(i, b) == [isin |-> i, beta_1yr |-> b]
NoBetaEntry(i) == [isin |-> i]

BetaInputs ==
    {[i \in Isins |-> BetaEntry(i, IF i = Isin(2) THEN 2 ELSE 1)],
     [i \in Isins \ {Isin(2)} |-> IF i = Isin(1) THEN BetaEntry(i, 1) ELSE NoBetaEntry(i)],
     [i \in Isins \ {Isin(1)} |-> IF i = Isin(2) THEN NoBetaEntry(i) ELSE BetaEntry(i, 0)]}

DefaultBeta == [i \in Isins |-> BetaEntry(i, IF i = Isin(2) THEN 2 ELSE 1)]

\* an entry of "portfolio_data"
PortfolioInputs ==
    {<<>>,
     "M1" :> [member_code |-> "M1"],
     "M1" :> [member_code |-> "M1", portfolio |-> T("English", "P1"),
              member_code_ta |-> T("Tamil", "M1"), portfolio_ta |-> T("Tamil", "P1")]}

DefaultPortfolio ==
    "M1" :> [member_code |-> "M1", portfolio |-> T("English", "P1"),
             member_code_ta |-> T("Tamil", "M1"), portfolio_ta |-> T("Tamil", "P1")]

\* the i-th row of the holdings table: a NaN sector is an empty cell
Holding(i, cost, market) ==
    [ISIN |-> Isin(i), StockName |-> T("raw", Isin(i)), MemberCode |-> "M1", Qty |-> i,
     ValueAtCost |-> cost, ValueAtMarket |-> market,
     SectorName |-> IF i = 2 THEN "NaN" ELSE "Banks"]

HoldingTables(costs, markets) ==
    UNION {{[i \in 1..k |-> Holding(i, c[i], m[i])] :
                c \in [1..k -> costs], m \in [1..k -> markets]} : k \in 0..MaxHoldings}

DefaultCsv == <<Holding(1, 3, 1), Holding(2, 0, 1)>>

-----------------------------------------------------------------------------
(* The inputs a pass may find.  Each family varies the files one part of   *)
(* the script reads and keeps the others at a well-formed default.         *)

BaseInput ==
    [files |-> FileNames, locale_ok |-> FALSE, label_data |-> FullLabels,
     bank_data |-> DefaultBank, beta_data |-> DefaultBeta,
     portfolio_meta |-> DefaultPortfolio, csv |-> DefaultCsv]

MetricInputs ==
    {[BaseInput EXCEPT !.csv = h, !.beta_data = b] :
        h \in HoldingTables(CostValues, MarketValues), b \in BetaInputs}

FormatInputs ==
    {[BaseInput EXCEPT !.csv = <<Holding(1, c, m)>>, !.locale_ok = l] :
        c \in FormatValues \cup {0}, m \in FormatValues \cup {-1}, l \in BOOLEAN}

NameInputs ==
    {[BaseInput EXCEPT !.bank_data = b, !.portfolio_meta = p] :
        b \in {x \in BankInputs : WellFormedBank(x)}, p \in PortfolioInputs}

LabelFileInputs == {[BaseInput EXCEPT !.label_data = l] : l \in LabelInputs}

MissingFileInputs == {[BaseInput EXCEPT !.files = f] : f \in SUBSET FileNames}

InputSpace ==
    MetricInputs \cup FormatInputs \cup NameInputs \cup LabelFileInputs
        \cup MissingFileInputs

-----------------------------------------------------------------------------
(* State before the script has run *)

NoError == [type |-> "", key |-> ""]
KeyError(k) == [type |-> "KeyError", key |-> k]

NoLabels == <<>>
NoSummary ==
    [total_cost |-> 0, total_market |-> 0, profit_pct |-> Zero, portfolio_beta |-> Zero]
NoCards == <<>>
NoTable == [columns |-> <<>>, rows |-> <<>>, rendered |-> FALSE]
NoDownload == [offered |-> FALSE, label |-> EmptyText, data |-> <<>>,
               file_name |-> "", mime |-> ""]

Fresh ==
    /\ pc = "check"
    /\ error = NoError
    /\ labels = NoLabels
    /\ header_labels = NoLabels
    /\ beta_map = <<>>
    /\ df = <<>>
    /\ selected_stocks = {}
    /\ filtered_df = <<>>
    /\ summary = NoSummary
    /\ shown = {}
    /\ cards = NoCards
    /\ chart_df = <<>>
    /\ styled_df = NoTable
    /\ download = NoDownload

Init ==
    /\ language \in Languages
    /\ \E in \in InputSpace :
        /\ files = in.files
        /\ locale_ok = in.locale_ok
        /\ label_data = in.label_data
        /\ bank_data = in.bank_data
        /\ beta_data = in.beta_data
        /\ portfolio_meta = in.portfolio_meta
        /\ csv = in.csv
    /\ Fresh

-----------------------------------------------------------------------------
(* Widgets: what a step emits, in script order, up to the first label the  *)
(* bundle lacks (labels[key] raises KeyError there)                        *)

Lbl(slot, key) == [slot |-> slot, key |-> key, literal |-> FALSE]
Lit(slot, text) == [slot |-> slot, key |-> text, literal |-> TRUE]

Missing(w) == ~w.literal /\ w.key \notin DOMAIN labels

FirstMissing(ws) ==
    IF \E i \in 1..Len(ws) : Missing(ws[i])
    THEN CHOOSE i \in 1..Len(ws) : Missing(ws[i]) /\ \A j \in 1..(i - 1) : ~Missing(ws[j])
    ELSE 0

Emitted(ws) ==
    LET stop == IF FirstMissing(ws) = 0 THEN Len(ws) + 1 ELSE FirstMissing(ws)
    IN  {[slot |-> ws[i].slot,
          text |-> IF ws[i].literal THEN T("English", ws[i].key) ELSE labels[ws[i].key]] :
            i \in 1..(stop - 1)}

\* the exception of a step that emits ws
KeyErrorOf(ws) == KeyError(ws[FirstMissing(ws)].key)

-----------------------------------------------------------------------------
(* Lines 24-39: sidebar, file uploads, exit if any file is missing *)

\* any([...]) in place of all([...])
AnyPresent(fs) == fs # {}

\* all([csv_file, beta_json_file, bank_master_file, labels_file, portfolio_master_file])
AllPresent(fs) == fs = FileNames

SidebarWidgets ==
    {[slot |-> "language_header", text |-> T("English/Tamil", "Language")],
     [slot |-> "language_radio", text |-> T("English", "Choose Language")],
     [slot |-> "uploads_header", text |-> T("English", "File Uploads")]}
    \cup {[slot |-> "uploader", text |-> T("English", f)] : f \in FileNames \ files}

Prompt == [slot |-> "prompt", text |-> T("English", "Upload all files")]

CheckInputs ==
    /\ pc = "check"
    /\ IF AllPresent(files)
       THEN /\ shown' = SidebarWidgets
            /\ pc' = "load"
       ELSE /\ shown' = SidebarWidgets \cup {Prompt}
            /\ pc' = "stopped"
    /\ UNCHANGED <<error, language, inputs, labels, header_labels, beta_map, df,
                   selected_stocks, filtered_df, summary, cards, chart_df, styled_df,
                   download>>

-----------------------------------------------------------------------------
(* Lines 41-49: load the JSON files *)

\* {item["isin"]: item.get("beta_1yr") for item in ...}; None is held as NaN,
\* which is what it becomes in the float column
BetaMap(data) == [i \in DOMAIN data |-> IF "beta_1yr" \in DOMAIN data[i]
                                         THEN Num(data[i].beta_1yr) ELSE NaN]

LoadJson ==
    /\ pc = "load"
    /\ IF language \notin DOMAIN label_data
       THEN /\ error' = KeyError(language)
            /\ pc' = "error"
            /\ UNCHANGED <<labels, header_labels, beta_map>>
       ELSE IF "table_headers" \notin DOMAIN label_data[language]
       THEN /\ error' = KeyError("table_headers")
            /\ pc' = "error"
            /\ labels' = label_data[language]
            /\ UNCHANGED <<header_labels, beta_map>>
       ELSE /\ labels' = label_data[language]
            /\ header_labels' = label_data[language]["table_headers"]
            /\ beta_map' = BetaMap(beta_data)
            /\ pc' = "join"
            /\ UNCHANGED error
    /\ UNCHANGED <<language, inputs, df, selected_stocks, filtered_df, summary, shown,
                   cards, chart_df, styled_df, download>>

-----------------------------------------------------------------------------
(* Lines 51-81: load the holdings and join the reference tables *)

\* lines 56-62
BankNameMap(data) ==
    [i \in DOMAIN data |->
        [English |-> Get(data[i], "full_name_en", EmptyText),
         Tamil |-> Get(data[i], "full_name_ta", Get(data[i], "full_name_en", EmptyText))]]

\* lines 63-66: bank_name_map.get(row["ISIN"], {}).get(language, row["Stock Name"])
DisplayName(row, lang) ==
    LET m == BankNameMap(bank_data)
    IN  IF row.ISIN \in DOMAIN m THEN m[row.ISIN][lang] ELSE row.StockName

\* a member code shown as it is written
CodeText(c) == T("code", c)

\* lines 69-75
PortfolioMap(data, lang) ==
    [c \in DOMAIN data |->
        [member |-> IF lang = "Tamil"
                    THEN Get(data[c], "member_code_ta", CodeText(data[c].member_code))
                    ELSE CodeText(data[c].member_code),
         portfolio |-> Get(data[c], IF lang = "Tamil" THEN "portfolio_ta" ELSE "portfolio",
                           EmptyText)]]

\* line 76
MemberDisplay(row, lang) ==
    LET m == PortfolioMap(portfolio_meta, lang)
    IN  IF row.MemberCode \in DOMAIN m THEN m[row.MemberCode].member
        ELSE CodeText(row.MemberCode)

\* line 77
PortfolioName(row, lang) ==
    LET m == PortfolioMap(portfolio_meta, lang)
    IN  IF row.MemberCode \in DOMAIN m THEN m[row.MemberCode].portfolio ELSE EmptyText

\* line 53: df["ISIN"].map(beta_map)
BetaOf(row) == IF row.ISIN \in DOMAIN beta_map THEN beta_map[row.ISIN] ELSE NaN

\* lines 80-81
ProfitPct(row) ==
    Round2(Mul(Div(Num(row.ValueAtMarket - row.ValueAtCost), Num(row.ValueAtCost)),
               Num(100)))

Joined(row) ==
    [ISIN |-> row.ISIN, StockName |-> row.StockName, MemberCode |-> row.MemberCode,
     Qty |-> row.Qty, ValueAtCost |-> row.ValueAtCost,
     ValueAtMarket |-> row.ValueAtMarket, SectorName |-> row.SectorName,
     Beta |-> BetaOf(row), DisplayName |-> DisplayName(row, language),
     MemberDisplay |-> MemberDisplay(row, language),
     PortfolioName |-> PortfolioName(row, language), ProfitPct |-> ProfitPct(row)]

JoinHoldings ==
    /\ pc = "join"
    /\ df' = [i \in 1..Len(csv) |-> Joined(csv[i])]
    /\ pc' = "filter"
    /\ UNCHANGED <<error, language, inputs, labels, header_labels, beta_map,
                   selected_stocks, filtered_df, summary, shown, cards, chart_df,
                   styled_df, download>>

-----------------------------------------------------------------------------
(* Lines 83-86: the stock filter *)

StockOptions == {df[i].DisplayName : i \in 1..Len(df)}

Selected(row, sel) == row.DisplayName \in sel

\* a filter that reads an empty selection as "all"
RetainedOrAll(rows, sel) ==
    IF sel = {} THEN rows ELSE SelectSeq(rows, LAMBDA r : Selected(r, sel))

\* line 86: df[df["Display Name"].isin(selected_stocks)]
Retained(rows, sel) == SelectSeq(rows, LAMBDA r : Selected(r, sel))

FilterWidgets == <<Lbl("filter_prompt", "filter_by_sector")>>

FilterStocks ==
    /\ pc = "filter"
    /\ IF FirstMissing(FilterWidgets) # 0
       THEN /\ error' = KeyErrorOf(FilterWidgets)
            /\ pc' = "error"
            /\ UNCHANGED <<selected_stocks, filtered_df, shown>>
       ELSE /\ \E sel \in SUBSET StockOptions :
                /\ selected_stocks' = sel
                /\ filtered_df' = Retained(df, sel)
            /\ shown' = shown \cup Emitted(FilterWidgets)
            /\ pc' = "summary"
            /\ UNCHANGED error
    /\ UNCHANGED <<language, inputs, labels, header_labels, beta_map, df, summary,
                   cards, chart_df, styled_df, download>>

-----------------------------------------------------------------------------
(* Lines 88-94: summary metrics *)

\* a weight over the market value of all loaded holdings
WeightOverLoaded(row, total) ==
    Div(Num(row.ValueAtMarket), Num(IntSum(Column(df, "ValueAtMarket"))))

\* line 92: a row's market value over total_market
Weight(row, total) == Div(Num(row.ValueAtMarket), Num(total))

\* line 91
SummaryProfitPct(total_cost, total_market) ==
    IF total_cost # 0
    THEN Mul(Div(Num(total_market - total_cost), Num(total_cost)), Num(100))
    ELSE Zero

Weighted(row, total) ==
    [ISIN |-> row.ISIN, StockName |-> row.StockName, MemberCode |-> row.MemberCode,
     Qty |-> row.Qty, ValueAtCost |-> row.ValueAtCost,
     ValueAtMarket |-> row.ValueAtMarket, SectorName |-> row.SectorName,
     Beta |-> row.Beta, DisplayName |-> row.DisplayName,
     MemberDisplay |-> row.MemberDisplay, PortfolioName |-> row.PortfolioName,
     ProfitPct |-> row.ProfitPct, Weight |-> Weight(row, total),
     WeightedBeta |-> Mul(row.Beta, Weight(row, total))]

Summarize ==
    /\ pc = "summary"
    /\ LET total_cost == IntSum(Column(filtered_df, "ValueAtCost"))
           total_market == IntSum(Column(filtered_df, "ValueAtMarket"))
           weighted == [i \in 1..Len(filtered_df) |-> Weighted(filtered_df[i], total_market)]
       IN  /\ filtered_df' = weighted
           /\ summary' = [total_cost |-> total_cost,
                          total_market |-> total_market,
                          profit_pct |-> SummaryProfitPct(total_cost, total_market),
                          portfolio_beta |-> SkipNaSum(Column(weighted, "WeightedBeta"))]
    /\ pc' = "cards"
    /\ UNCHANGED <<error, language, inputs, labels, header_labels, beta_map, df,
                   selected_stocks, shown, cards, chart_df, styled_df, download>>

-----------------------------------------------------------------------------
(* Lines 96-106: page title and summary cards *)

SummaryWidgets ==
    <<Lbl("page_title", "title"), Lbl("title", "title"),
      Lbl("summary_heading", "table_title"), Lbl("card_cost", "marketcap_label"),
      Lit("card_market", "Market Value"), Lit("card_profit", "Profit %"),
      Lbl("card_beta", "beta_label")>>

\* the value of a card: round() of an integer total is that total; "{:.2f}"
\* shows two decimals
CardValue(slot) ==
    CASE slot = "card_cost" -> format_inr(summary.total_cost)
      [] slot = "card_market" -> format_inr(summary.total_market)
      [] slot = "card_profit" -> Round2(summary.profit_pct)
      [] slot = "card_beta" -> Round2(summary.portfolio_beta)

CardSlots == {"card_cost", "card_market", "card_profit", "card_beta"}

RenderSummary ==
    /\ pc = "cards"
    /\ shown' = shown \cup Emitted(SummaryWidgets)
    /\ cards' = [s \in {w.slot : w \in Emitted(SummaryWidgets)} \cap CardSlots |->
                    CardValue(s)]
    /\ IF FirstMissing(SummaryWidgets) # 0
       THEN /\ error' = KeyErrorOf(SummaryWidgets)
            /\ pc' = "error"
       ELSE /\ pc' = "chart"
            /\ UNCHANGED error
    /\ UNCHANGED <<language, inputs, labels, header_labels, beta_map, df,
                   selected_stocks, filtered_df, summary, chart_df, styled_df, download>>

-----------------------------------------------------------------------------
(* Lines 108-123: bar chart *)

ChartWidgets ==
    <<Lbl("chart_title", "graph_title"), Lbl("chart_x_axis", "marketcap_label"),
      Lit("chart_colorbar", "Profit %")>>

\* line 111: the display name and the sector, "Unknown" for an empty sector
ChartLabel(row) ==
    <<row.DisplayName, IF row.SectorName = "NaN" THEN "Unknown" ELSE row.SectorName>>

ChartRow(row) ==
    [Label |-> ChartLabel(row), ValueAtMarket |-> row.ValueAtMarket,
     ProfitPct |-> row.ProfitPct, Qty |-> row.Qty, Beta |-> row.Beta,
     ValueAtCost |-> row.ValueAtCost]

\* line 113: sort_values("Value At Market Price", ascending=False); rows of equal
\* value keep their order
RECURSIVE InsertDesc(_, _)
InsertDesc(r, s) ==
    IF s = <<>> THEN <<r>>
    ELSE IF s[1].ValueAtMarket >= r.ValueAtMarket THEN <<s[1]>> \o InsertDesc(r, Tail(s))
    ELSE <<r>> \o s

RECURSIVE SortDesc(_)
SortDesc(s) ==
    IF s = <<>> THEN <<>> ELSE InsertDesc(s[Len(s)], SortDesc(Front(s, 1)))

RenderChart ==
    /\ pc = "chart"
    /\ shown' = shown \cup Emitted(ChartWidgets)
    /\ IF FirstMissing(ChartWidgets) # 0
       THEN /\ error' = KeyErrorOf(ChartWidgets)
            /\ pc' = "error"
            /\ UNCHANGED chart_df
       ELSE /\ chart_df' = SortDesc([i \in 1..Len(filtered_df) |-> ChartRow(filtered_df[i])])
            /\ pc' = "table"
            /\ UNCHANGED error
    /\ UNCHANGED <<language, inputs, labels, header_labels, beta_map, df,
                   selected_stocks, filtered_df, summary, cards, styled_df, download>>

-----------------------------------------------------------------------------
(* Lines 125-150: currency columns and table *)

\* lines 126-127: the two value columns become formatted strings
Formatted(row) ==
    [row EXCEPT !.ValueAtCost = format_inr(row.ValueAtCost),
                !.ValueAtMarket = format_inr(row.ValueAtMarket)]

\* the keys of column_map in order, each with the header field it reads
TableColumns ==
    <<[column |-> "MemberDisplay", field |-> "member_code"],
      [column |-> "PortfolioName", field |-> "portfolio_name"],
      [column |-> "DisplayName", field |-> "stock_name"],
      [column |-> "ISIN", field |-> "isin"],
      [column |-> "Qty", field |-> "qty"],
      [column |-> "ValueAtCost", field |-> "value_cost"],
      [column |-> "ValueAtMarket", field |-> "value_market"],
      [column |-> "ProfitPct", field |-> "profit_pct"],
      [column |-> "Beta", field |-> "beta"]>>

\* lines 131-139: header_labels[field], but .get(field, "Portfolio") in line 132
HeaderDefaults(field) == field = "portfolio_name"

\* the header fields whose lookup raises KeyError
MissingHeaders ==
    {i \in 1..Len(TableColumns) :
        /\ TableColumns[i].field \notin DOMAIN header_labels
        /\ ~HeaderDefaults(TableColumns[i].field)}

HeaderOf(field) ==
    IF field \in DOMAIN header_labels THEN header_labels[field]
    ELSE T("English", "Portfolio")

ColumnMap == [i \in 1..Len(TableColumns) |-> HeaderOf(TableColumns[i].field)]

\* lines 143-148: the profit cell shows two decimals and "%"; red below zero,
\* green otherwise (a NaN is not below zero)
ProfitCell(x) ==
    [text |-> Round2(x), suffix |-> "%",
     color |-> IF (IsFinite(x) /\ x.n < 0) \/ x = NegInf THEN "red" ELSE "green"]

TableRow(row) ==
    [MemberDisplay |-> row.MemberDisplay, PortfolioName |-> row.PortfolioName,
     DisplayName |-> row.DisplayName, ISIN |-> row.ISIN, Qty |-> row.Qty,
     ValueAtCost |-> row.ValueAtCost, ValueAtMarket |-> row.ValueAtMarket,
     ProfitPct |-> ProfitCell(row.ProfitPct), Beta |-> row.Beta]

TableWidgets == <<Lbl("table_title", "table_title")>>

RenderTable ==
    /\ pc = "table"
    /\ filtered_df' = [i \in 1..Len(filtered_df) |-> Formatted(filtered_df[i])]
    /\ IF MissingHeaders # {}
       THEN /\ error' = KeyError(TableColumns[CHOOSE i \in MissingHeaders :
                                    \A j \in MissingHeaders : i <= j].field)
            /\ pc' = "error"
            /\ UNCHANGED <<styled_df, shown>>
       ELSE /\ styled_df' = [columns |-> ColumnMap,
                             rows |-> [i \in 1..Len(filtered_df) |->
                                          TableRow(Formatted(filtered_df[i]))],
                             rendered |-> TRUE]
            /\ shown' = shown \cup Emitted(TableWidgets)
                          \cup {[slot |-> "column_header", text |-> ColumnMap[i]] :
                                  i \in 1..Len(TableColumns)}
            /\ pc' = "export"
            /\ UNCHANGED error
    /\ UNCHANGED <<language, inputs, labels, header_labels, beta_map, df,
                   selected_stocks, summary, cards, chart_df, download>>

-----------------------------------------------------------------------------
(* Lines 152-163: export *)

\* line 153: the same columns and headers, without the Styler's formats
ExportDf ==
    [columns |-> ColumnMap,
     rows |-> [i \in 1..Len(filtered_df) |->
                  [TableRow(filtered_df[i]) EXCEPT !.ProfitPct = filtered_df[i].ProfitPct]]]

\* lines 154-157: the writer is commented out, so nothing is written into the
\* BytesIO and getvalue() is b""
BufferValue(export_df) == <<>>

ExportWidgets == <<Lbl("export_button", "export_excel")>>

Export ==
    /\ pc = "export"
    /\ IF FirstMissing(ExportWidgets) # 0
       THEN /\ error' = KeyErrorOf(ExportWidgets)
            /\ pc' = "error"
            /\ UNCHANGED <<download, shown>>
       ELSE /\ download' = [offered |-> TRUE, label |-> labels["export_excel"],
                            data |-> BufferValue(ExportDf),
                            file_name |-> "portfolio_dashboard.xlsx",
                            mime |-> "application/vnd.openxmlformats-officedocument.spreadsheetml.sheet"]
            /\ shown' = shown \cup Emitted(ExportWidgets)
            /\ pc' = "done"
            /\ UNCHANGED error
    /\ UNCHANGED <<language, inputs, labels, header_labels, beta_map, df,
                   selected_stocks, filtered_df, summary, cards, chart_df, styled_df>>

-----------------------------------------------------------------------------
(* A widget interaction starts the script again on the same files *)

Rerun ==
    /\ pc \in {"done", "stopped", "error"}
    /\ language' \in Languages
    /\ pc' = "check"
    /\ error' = NoError
    /\ labels' = NoLabels
    /\ header_labels' = NoLabels
    /\ beta_map' = <<>>
    /\ df' = <<>>
    /\ selected_stocks' = {}
    /\ filtered_df' = <<>>
    /\ summary' = NoSummary
    /\ shown' = {}
    /\ cards' = NoCards
    /\ chart_df' = <<>>
    /\ styled_df' = NoTable
    /\ download' = NoDownload
    /\ UNCHANGED inputs

Next ==
    \/ CheckInputs
    \/ LoadJson
    \/ JoinHoldings
    \/ FilterStocks
    \/ Summarize
    \/ RenderSummary
    \/ RenderChart
    \/ RenderTable
    \/ Export
    \/ Rerun

Spec == Init /\ [][Next]_vars

-----------------------------------------------------------------------------
(* Properties.  What a property expects is computed from the loaded        *)
(* holdings (df), the selection and the input files, not from the values   *)
(* the pass derived.                                                       *)

Summarized == pc \in {"cards", "chart", "table", "export", "done"}

\* the loaded holdings the selection retains (each ISIN is held once)
RetainedLoaded == SelectSeq(df, LAMBDA r : r.DisplayName \in selected_stocks)
RetainedMarket == IntSum(Column(RetainedLoaded, "ValueAtMarket"))
LoadedMarket == IntSum(Column(df, "ValueAtMarket"))

HasWeights == \A k \in 1..Len(filtered_df) : "Weight" \in DOMAIN filtered_df[k]

\* C1: each retained holding's weight is its market value over the total market
\* value of the retained holdings, and when that total is positive the weights
\* of the retained holdings sum to exactly 1.
ThmC1_WeightOverRetained ==
    (Summarized /\ HasWeights) =>
        /\ Len(filtered_df) = Len(RetainedLoaded)
        /\ \A k \in 1..Len(filtered_df) :
            /\ filtered_df[k].ISIN = RetainedLoaded[k].ISIN
            /\ filtered_df[k].Weight = Quot(RetainedLoaded[k].ValueAtMarket, RetainedMarket)
        /\ RetainedMarket > 0 => PropagatingSum(Column(filtered_df, "Weight")) = One

\* a pass that retained one of two loaded holdings, whose total differs from the
\* total of all loaded holdings
WitC1_ProperSubset ==
    /\ pc = "done"
    /\ Len(df) = 2
    /\ Len(filtered_df) = 1
    /\ RetainedMarket > 0
    /\ LoadedMarket # RetainedMarket
    /\ filtered_df[1].Weight = One

\* the weight section 4.1 of the specification gives a holding: 0 when the total is 0
ConventionWeight(row, total) ==
    IF total = 0 THEN Zero ELSE Quot(row.ValueAtMarket, total)

ClaimedContribution(row, total) ==
    IF IsNaN(row.Beta) THEN Zero ELSE Mul(row.Beta, ConventionWeight(row, total))

ClaimedPortfolioBeta ==
    PropagatingSum([k \in 1..Len(RetainedLoaded) |->
                       ClaimedContribution(RetainedLoaded[k], RetainedMarket)])

\* C2: the portfolio beta is the sum over the retained holdings of beta x weight,
\* a holding without a beta contributing 0.
CexC2_PortfolioBetaIsWeightedSum ==
    Summarized => summary.portfolio_beta = ClaimedPortfolioBeta

\* the name the fallback chain of the claim gives a holding
ClaimedDisplayName(row) ==
    IF row.ISIN \notin DOMAIN bank_data THEN row.StockName
    ELSE LET en == Get(bank_data[row.ISIN], "full_name_en", EmptyText)
             ta == Get(bank_data[row.ISIN], "full_name_ta", EmptyText)
         IN  IF language = "Tamil" /\ ta # EmptyText THEN ta ELSE en

\* C3: the display name is the raw stock name when the identifier is not in the
\* issuer table, the English name when the language is Tamil and the Tamil name
\* is empty, and the name in the chosen language otherwise.
CexC3_DisplayNameChain ==
    \A i \in 1..Len(df) : df[i].DisplayName = ClaimedDisplayName(csv[i])

\* C4: with an empty selection the pass raises nothing, table and chart have no
\* rows, and total cost, total market, profit % and portfolio beta are all 0.
ThmC4_EmptySelection ==
    /\ (Summarized /\ selected_stocks = {}) =>
          /\ filtered_df = <<>>
          /\ summary = [total_cost |-> 0, total_market |-> 0, profit_pct |-> Zero,
                        portfolio_beta |-> Zero]
          /\ chart_df = <<>>
          /\ styled_df.rows = <<>>
          /\ "card_profit" \in DOMAIN cards => cards["card_profit"] = Zero
          /\ "card_beta" \in DOMAIN cards => cards["card_beta"] = Zero
    /\ (pc = "error" /\ selected_stocks = {}) =>
          (error.type = "KeyError" /\ label_data # FullLabels)

\* a finished pass over two loaded holdings with nothing selected
WitC4_EmptySelectionDone ==
    /\ pc = "done"
    /\ selected_stocks = {}
    /\ Len(df) = 2
    /\ styled_df.rendered
    /\ styled_df.rows = <<>>
    /\ DOMAIN cards = CardSlots

\* C5: the profit % of a holding whose cost is 0 is one and the same sentinel,
\* whatever its market value.
CexC5_OneSentinelAtZeroCost ==
    \A i, j \in 1..Len(df) :
        (df[i].ValueAtCost = 0 /\ df[j].ValueAtCost = 0) => df[i].ProfitPct = df[j].ProfitPct

Untouched ==
    /\ labels = NoLabels
    /\ header_labels = NoLabels
    /\ beta_map = <<>>
    /\ df = <<>>
    /\ selected_stocks = {}
    /\ filtered_df = <<>>
    /\ summary = NoSummary
    /\ cards = NoCards
    /\ chart_df = <<>>
    /\ ~styled_df.rendered
    /\ ~download.offered

\* C6: when one of the five inputs is absent the pass shows the prompt and halts
\* with no later step executed and no exception; when all five are present it
\* goes on to the load step.
ThmC6_MissingInputHalts ==
    /\ (files # FileNames /\ pc # "check") =>
          /\ pc = "stopped"
          /\ error = NoError
          /\ Prompt \in shown
          /\ Untouched
    /\ files = FileNames => (pc # "stopped" /\ Prompt \notin shown)
    /\ (files = FileNames /\ pc # "check") =>
          (labels # NoLabels \/ pc = "load" \/ error = KeyError(language))

\* a halted pass with exactly one input absent
WitC6_OneFileAbsent ==
    /\ pc = "stopped"
    /\ Cardinality(files) = Cardinality(FileNames) - 1
    /\ Prompt \in shown

\* what a reader of the downloaded bytes finds: the written sheet, or nothing
SheetOf(data) == IF data = <<>> THEN [columns |-> <<>>, rows |-> <<>>] ELSE data[1]

CellsOf(sheet) ==
    {<<i, c, sheet.rows[i][c]>> : i \in 1..Len(sheet.rows),
                                  c \in {TableColumns[k].column : k \in 1..Len(TableColumns)}}

\* C7: the download holds the same headers and the same formatted cells as the
\* table on screen.
CexC7_ExportEqualsDisplay ==
    download.offered =>
        /\ SheetOf(download.data).columns = styled_df.columns
        /\ CellsOf(SheetOf(download.data)) = CellsOf(styled_df)

\* the string of the claim: glyph, Indian grouping, no fraction
ClaimedInr(v) == <<Glyph>> \o GroupIndian(Digits(v))

\* C8: for a non-negative whole amount format_inr gives the glyph and the digits
\* in Indian grouping without a fraction, with and without the en_IN locale.
CexC8_IndianGroupingOnBothPaths ==
    /\ ("card_cost" \in DOMAIN cards /\ summary.total_cost >= 0) =>
          cards["card_cost"] = ClaimedInr(summary.total_cost)
    /\ ("card_market" \in DOMAIN cards /\ summary.total_market >= 0) =>
          cards["card_market"] = ClaimedInr(summary.total_market)

\* C9: a table is rendered only when the header mapping of the language has an
\* entry for every field shown as a column; otherwise the pass ends in an error.
CexC9_MissingHeaderIsAnError ==
    styled_df.rendered => \A f \in HeaderFields : f \in DOMAIN header_labels

ClaimedSlots ==
    {"page_title", "title", "card_cost", "card_market", "card_profit", "card_beta",
     "chart_title", "chart_x_axis", "table_title", "column_header", "filter_prompt",
     "export_button"}

\* C10: in a Tamil pass no label among page title, card labels, chart title and
\* axis label, table title, column headers, filter prompt and export button is
\* English.
CexC10_NoMixedLanguage ==
    language = "Tamil" =>
        \A w \in shown : w.slot \in ClaimedSlots => w.text.lang = "Tamil"

=============================================================================
